---- MODULE Spec2Model ----
(***************************************************************************)
(* Model of watch_quota.py: a script that polls a browser-rendered course  *)
(* table and prints the quota of each watched section when it changes.     *)
(* The script is one thread of control; pc is its position in the source.  *)
(* The browser (selenium driver) and the operator are the environment:     *)
(* each driver call either returns or raises one of the exceptions below.  *)
(* The section rows a page load displays are chosen when the course row is *)
(* clicked and stay as they are until the next driver.refresh().  Section  *)
(* arguments are strings of digits, so zfill only pads with zeros.         *)
(***************************************************************************)
EXTENDS Integers, Sequences, FiniteSets, TLC

VARIABLES
    pc,                  \* position of the script in watch_quota.py
    sections,            \* line 23: the zero-filled section list
    section_quota_cache, \* line 24: dict section -> last quota text
    tries,               \* line 39: retry counter of the table lookup
    idx,                 \* position of `for section in sections` (line 67)
    has_changed_quota,   \* line 66
    rows,                \* the section rows the page displays: row id -> quota text
    raised,              \* the exception raised by the last step ("none" if it returned)
    printed,             \* the lines printed since the last separator (line 100)
    closes,              \* history: number of driver.close() invocations
    acq_fails,           \* history: failed table lookups of the current acquisition
    consec_fails,        \* history: failed table lookups since the last success or reload
    reloads,             \* history: driver.get(url) reloads of the current acquisition
    this_cycle,          \* history: section -> quota text read in the current cycle
    prev_cycle,          \* history: section -> quota text read in the preceding cycle
    cache_at_start,      \* history: section_quota_cache when the current cycle began
    steps,               \* history: the calls completed since the last section read
    writes               \* history: section -> cache assignments in the current cycle

vars == <<pc, sections, section_quota_cache, tries, idx, has_changed_quota, rows,
          raised, printed, closes, acq_fails, consec_fails, reloads,
          this_cycle, prev_cycle, cache_at_start, steps, writes>>

----------------------------------------------------------------------------
(* Bounds of the model *)

MaxSections == 2   \* longest --section list
MaxAcqFails == 10  \* most failed table lookups within one acquisition
TriesCap == 12     \* largest value the retry counter is followed to

(* Program constants *)

max_tries == 10

course == "CS 101"

(* Inputs and environment values *)

\* what the bare `except:` of line 52 is handed by a failing driver call
LookupExceptions == {"NoSuchElementException", "WebDriverException", "KeyboardInterrupt"}

RawSections == {"1", "001", "2"}

Values == {"", "3", "5"}

SectionWidth == 3

Empty == [k \in {} |-> ""]

----------------------------------------------------------------------------
(* Pure helpers *)

\* str.zfill(width) on a string of digits: left-pad with "0" up to width.
RECURSIVE zfill(_, _)
zfill(s, width) == IF Len(s) >= width THEN s ELSE zfill("0" \o s, width)

\* line 23: sections = [section.zfill(3) for section in args.sections]
NormalizeSections(args_sections) ==
    [j \in 1..Len(args_sections) |-> zfill(args_sections[j], SectionWidth)]

\* line 68: course_section = f"{course}-{section}"
course_section(section) == course \o "-" \o section

\* dict assignment d[k] = v
Put(d, k, v) == [x \in (DOMAIN d) \cup {k} |-> IF x = k THEN v ELSE d[x]]

\* a lookup that ignores the cache and always answers ""
old_quota_NoCache(cache, section) == ""

\* lines 80-83: the cached quota, or "" when the section is not cached yet
old_quota(cache, section) ==
    IF section \in DOMAIN cache THEN cache[section] ELSE ""

\* an assignment that never overwrites an entry (dict.setdefault)
CacheWrite_KeepFirst(cache, section, text) ==
    IF section \in DOMAIN cache THEN cache ELSE Put(cache, section, text)

\* an assignment that rebinds the dict instead of updating one entry
CacheWrite_Reset(cache, section, text) == Put(Empty, section, text)

\* line 85: section_quota_cache[section] = section_cols[-2].text
CacheWrite(cache, section, text) == Put(cache, section, text)

Line(type, id, value) == [type |-> type, id |-> id, value |-> value]

AllRowIds == {course_section(zfill(r, SectionWidth)) : r \in RawSections}

\* every table of section rows the page can display after the course row is clicked
RowTables == UNION {[S -> Values] : S \in SUBSET AllRowIds}

ArgLists == UNION {[1..n -> RawSections] : n \in 1..MaxSections}

----------------------------------------------------------------------------
Init ==
    /\ pc = "get"
    /\ sections \in {NormalizeSections(a) : a \in ArgLists}
    /\ section_quota_cache = Empty
    /\ tries = 0
    /\ idx = 0
    /\ has_changed_quota = FALSE
    /\ rows = Empty
    /\ raised = "none"
    /\ printed = <<>>
    /\ closes = 0
    /\ acq_fails = 0
    /\ consec_fails = 0
    /\ reloads = 0
    /\ this_cycle = Empty
    /\ prev_cycle = Empty
    /\ cache_at_start = Empty
    /\ steps = <<>>
    /\ writes = Empty

\* line 36: driver.get(url), before the try block
InitialGet ==
    /\ pc = "get"
    /\ pc' = "table"
    /\ UNCHANGED <<sections, section_quota_cache, tries, idx, has_changed_quota, rows,
                   raised, printed, closes, acq_fails, consec_fails, reloads,
                   this_cycle, prev_cycle, cache_at_start, steps, writes>>

\* line 36 raising: the script dies before the try block is entered
InitialGetFails ==
    /\ pc = "get"
    /\ \E exc \in {"WebDriverException", "KeyboardInterrupt"} : raised' = exc
    /\ pc' = "aborted"
    /\ UNCHANGED <<sections, section_quota_cache, tries, idx, has_changed_quota, rows,
                   printed, closes, acq_fails, consec_fails, reloads,
                   this_cycle, prev_cycle, cache_at_start, steps, writes>>

----------------------------------------------------------------------------
(* Acquisition: lines 43-54, the table lookup with its retry counter *)

\* a successful lookup that does not leave the retry loop (no break)
FindTable_NoBreak ==
    /\ \/ pc = "table" /\ tries # max_tries
       \/ pc = "find"
    /\ pc' = "retry_sleep"
    /\ UNCHANGED <<sections, section_quota_cache, tries, idx, has_changed_quota, rows,
                   raised, printed, closes, acq_fails, consec_fails, reloads,
                   this_cycle, prev_cycle, cache_at_start, steps, writes>>

\* lines 45 (false) and 50-51: find_element(By.ID, "courses") returns, break
FindTable ==
    /\ \/ pc = "table" /\ tries # max_tries
       \/ pc = "find"
    /\ pc' = "wait"
    /\ raised' = "none"
    /\ consec_fails' = 0
    /\ steps' = Append(steps, "table")
    /\ UNCHANGED <<sections, section_quota_cache, tries, idx, has_changed_quota, rows,
                   printed, closes, acq_fails, reloads,
                   this_cycle, prev_cycle, cache_at_start, writes>>

\* lines 50, 52-53: find_element raises; the bare except counts one more try
FindTableFails ==
    /\ \/ pc = "table" /\ tries # max_tries
       \/ pc = "find"
    /\ acq_fails < MaxAcqFails
    /\ tries < TriesCap
    /\ \E exc \in LookupExceptions : raised' = exc
    /\ tries' = tries + 1
    /\ acq_fails' = acq_fails + 1
    /\ consec_fails' = consec_fails + 1
    /\ pc' = "retry_sleep"
    /\ UNCHANGED <<sections, section_quota_cache, idx, has_changed_quota, rows,
                   printed, closes, reloads, this_cycle, prev_cycle, cache_at_start, steps, writes>>

\* lines 45-48: tries == max_tries, report, driver.get(url) returns, tries = 0
Reload ==
    /\ pc = "table"
    /\ tries = max_tries
    /\ printed' = Append(printed, Line("could_not_load", "", ""))
    /\ reloads' = reloads + 1
    /\ tries' = 0
    /\ consec_fails' = 0
    /\ raised' = "none"
    /\ pc' = "find"
    /\ UNCHANGED <<sections, section_quota_cache, idx, has_changed_quota, rows,
                   closes, acq_fails, this_cycle, prev_cycle, cache_at_start, steps, writes>>

\* lines 45-47, 52-53: driver.get(url) raises inside the same try; the bare
\* except counts it as one more try and tries is not reset
ReloadFails ==
    /\ pc = "table"
    /\ tries = max_tries
    /\ tries < TriesCap
    /\ printed' = Append(printed, Line("could_not_load", "", ""))
    /\ reloads' = reloads + 1
    /\ \E exc \in {"WebDriverException", "KeyboardInterrupt"} : raised' = exc
    /\ tries' = tries + 1
    /\ pc' = "retry_sleep"
    /\ UNCHANGED <<sections, section_quota_cache, idx, has_changed_quota, rows,
                   closes, acq_fails, consec_fails, this_cycle, prev_cycle, cache_at_start, steps, writes>>

\* line 54: sleep(1) inside the handler returns, next iteration of the inner loop
RetrySleep ==
    /\ pc = "retry_sleep"
    /\ raised' = "none"
    /\ pc' = "table"
    /\ UNCHANGED <<sections, section_quota_cache, tries, idx, has_changed_quota, rows,
                   printed, closes, acq_fails, consec_fails, reloads,
                   this_cycle, prev_cycle, cache_at_start, steps, writes>>

\* line 54: an interrupt during sleep(1) is raised inside the handler, so it
\* leaves the inner try and reaches the finally of line 101
RetrySleepInterrupted ==
    /\ pc = "retry_sleep"
    /\ raised' = "KeyboardInterrupt"
    /\ pc' = "finally"
    /\ UNCHANGED <<sections, section_quota_cache, tries, idx, has_changed_quota, rows,
                   printed, closes, acq_fails, consec_fails, reloads,
                   this_cycle, prev_cycle, cache_at_start, steps, writes>>

----------------------------------------------------------------------------
(* Lines 56-64: wait for the course row, verify its text, click it *)

\* lines 57-60 return; the click makes the page display the section rows
ClickCourse ==
    /\ pc = "wait"
    /\ rows' \in RowTables
    /\ has_changed_quota' = FALSE
    /\ idx' = 1
    /\ acq_fails' = 0
    /\ reloads' = 0
    /\ raised' = "none"
    /\ pc' = "section"
    /\ steps' = Append(steps, "click")
    /\ UNCHANGED <<sections, section_quota_cache, tries, printed, closes, consec_fails,
                   this_cycle, prev_cycle, cache_at_start, writes>>

\* a handler that reports the failure and runs the acquisition again
ClickCourseFails_Retry ==
    /\ pc = "wait"
    /\ \E exc \in {"AssertionError", "WebDriverException"} :
          /\ raised' = exc
          /\ printed' = Append(printed, Line("could_not_click", course, exc))
    /\ pc' = "table"
    /\ UNCHANGED <<sections, section_quota_cache, tries, idx, has_changed_quota, rows,
                   closes, acq_fails, consec_fails, reloads,
                   this_cycle, prev_cycle, cache_at_start, steps, writes>>

\* lines 57-62: the wait, the assert of line 59 or the click raises an
\* Exception; `except Exception` reports it and goes to close + exit
ClickCourseFails ==
    /\ pc = "wait"
    /\ \E exc \in {"AssertionError", "WebDriverException"} :
          /\ raised' = exc
          /\ printed' = Append(printed, Line("could_not_click", course, exc))
    /\ pc' = "fatal_close"
    /\ UNCHANGED <<sections, section_quota_cache, tries, idx, has_changed_quota, rows,
                   closes, acq_fails, consec_fails, reloads,
                   this_cycle, prev_cycle, cache_at_start, steps, writes>>

\* lines 57-60: KeyboardInterrupt is not an Exception, line 61 lets it pass
WaitInterrupted ==
    /\ pc = "wait"
    /\ raised' = "KeyboardInterrupt"
    /\ pc' = "finally"
    /\ UNCHANGED <<sections, section_quota_cache, tries, idx, has_changed_quota, rows,
                   printed, closes, acq_fails, consec_fails, reloads,
                   this_cycle, prev_cycle, cache_at_start, steps, writes>>

\* lines 63-64 and 74-75: driver.close(); exit() raises SystemExit
FatalClose ==
    /\ pc = "fatal_close"
    /\ closes' = closes + 1
    /\ raised' = "SystemExit"
    /\ pc' = "finally"
    /\ UNCHANGED <<sections, section_quota_cache, tries, idx, has_changed_quota, rows,
                   printed, acq_fails, consec_fails, reloads,
                   this_cycle, prev_cycle, cache_at_start, steps, writes>>

\* lines 101-102: finally: driver.close(), then the pending exception ends the script
Finally ==
    /\ pc = "finally"
    /\ closes' = closes + 1
    /\ pc' = "done"
    /\ UNCHANGED <<sections, section_quota_cache, tries, idx, has_changed_quota, rows,
                   raised, printed, acq_fails, consec_fails, reloads,
                   this_cycle, prev_cycle, cache_at_start, steps, writes>>

----------------------------------------------------------------------------
(* Lines 67-93: read every section in the order of the list *)

section_at(i) == sections[i]

\* a notification that names the course instead of the course section
QuotaLine_CourseOnly(section, text) == Line("quota", course, text)

\* the change notification of lines 88-92
QuotaLine(section, text) == Line("quota", course_section(section), text)

\* lines 71, 77-93 return for the section at idx: the row is displayed, its
\* first cell shows the row id, the second-to-last cell is cached and compared
ReadSection ==
    /\ pc = "section"
    /\ LET section == section_at(idx)
           id == course_section(section)
       IN /\ id \in DOMAIN rows
          /\ LET old == old_quota(section_quota_cache, section)
                 cache == CacheWrite(section_quota_cache, section, rows[id])
             IN /\ section_quota_cache' = cache
                /\ IF old # cache[section]
                   THEN /\ printed' = Append(printed, QuotaLine(section, cache[section]))
                        /\ has_changed_quota' = TRUE
                   ELSE UNCHANGED <<printed, has_changed_quota>>
                /\ this_cycle' = Put(this_cycle, section, rows[id])
                /\ writes' = Put(writes, section,
                                 IF section \in DOMAIN writes THEN writes[section] + 1 ELSE 1)
    /\ steps' = <<>>
    /\ idx' = idx + 1
    /\ pc' = IF idx = Len(sections) THEN "report" ELSE "section"
    /\ raised' = "none"
    /\ UNCHANGED <<sections, tries, rows, closes, acq_fails, consec_fails, reloads,
                   prev_cycle, cache_at_start>>

\* a handler that reports the missing row and goes on with the next section
SectionMissing_Continue ==
    /\ pc = "section"
    /\ course_section(section_at(idx)) \notin DOMAIN rows
    /\ raised' = "NoSuchElementException"
    /\ printed' = Append(printed, Line("not_found", course_section(section_at(idx)), ""))
    /\ idx' = idx + 1
    /\ pc' = IF idx = Len(sections) THEN "report" ELSE "section"
    /\ UNCHANGED <<sections, section_quota_cache, tries, has_changed_quota, rows,
                   closes, acq_fails, consec_fails, reloads,
                   this_cycle, prev_cycle, cache_at_start, steps, writes>>

\* lines 71-75: no row with this id; the bare except reports and goes to close + exit
SectionMissing ==
    /\ pc = "section"
    /\ course_section(section_at(idx)) \notin DOMAIN rows
    /\ raised' = "NoSuchElementException"
    /\ printed' = Append(printed, Line("not_found", course_section(section_at(idx)), ""))
    /\ pc' = "fatal_close"
    /\ UNCHANGED <<sections, section_quota_cache, tries, idx, has_changed_quota, rows,
                   closes, acq_fails, consec_fails, reloads,
                   this_cycle, prev_cycle, cache_at_start, steps, writes>>

\* lines 71-75: find_element raises something else; the bare except of line 72
\* handles it the same way
SectionFindFails ==
    /\ pc = "section"
    /\ \E exc \in {"WebDriverException", "KeyboardInterrupt"} : raised' = exc
    /\ printed' = Append(printed, Line("not_found", course_section(section_at(idx)), ""))
    /\ pc' = "fatal_close"
    /\ UNCHANGED <<sections, section_quota_cache, tries, idx, has_changed_quota, rows,
                   closes, acq_fails, consec_fails, reloads,
                   this_cycle, prev_cycle, cache_at_start, steps, writes>>

\* lines 77-85: the row was found but reading its cells raises, the assert of
\* line 78 fails or the operator interrupts; nothing catches it before line 101
SectionReadFails ==
    /\ pc = "section"
    /\ course_section(section_at(idx)) \in DOMAIN rows
    /\ \E exc \in {"AssertionError", "WebDriverException", "KeyboardInterrupt"} :
          raised' = exc
    /\ pc' = "finally"
    /\ UNCHANGED <<sections, section_quota_cache, tries, idx, has_changed_quota, rows,
                   printed, closes, acq_fails, consec_fails, reloads,
                   this_cycle, prev_cycle, cache_at_start, steps, writes>>

----------------------------------------------------------------------------
(* Lines 95-100: report, sleep, refresh *)

\* a report that leaves the loop once no quota has changed (break, no exception)
ReportUnchanged_Break ==
    /\ pc = "report"
    /\ printed' = IF ~has_changed_quota
                  THEN Append(printed, Line("unchanged", "", ""))
                  ELSE printed
    /\ pc' = IF ~has_changed_quota THEN "finally" ELSE "sleep"
    /\ UNCHANGED <<sections, section_quota_cache, tries, idx, has_changed_quota, rows,
                   raised, closes, acq_fails, consec_fails, reloads,
                   this_cycle, prev_cycle, cache_at_start, steps, writes>>

\* lines 95-96
ReportUnchanged ==
    /\ pc = "report"
    /\ printed' = IF ~has_changed_quota
                  THEN Append(printed, Line("unchanged", "", ""))
                  ELSE printed
    /\ pc' = "sleep"
    /\ UNCHANGED <<sections, section_quota_cache, tries, idx, has_changed_quota, rows,
                   raised, closes, acq_fails, consec_fails, reloads,
                   this_cycle, prev_cycle, cache_at_start, steps, writes>>

\* line 98: sleep(interval) returns
Sleep ==
    /\ pc = "sleep"
    /\ pc' = "refresh"
    /\ steps' = Append(steps, "sleep")
    /\ UNCHANGED <<sections, section_quota_cache, tries, idx, has_changed_quota, rows,
                   raised, printed, closes, acq_fails, consec_fails, reloads,
                   this_cycle, prev_cycle, cache_at_start, writes>>

\* line 98: the operator interrupts the sleep
SleepInterrupted ==
    /\ pc = "sleep"
    /\ raised' = "KeyboardInterrupt"
    /\ pc' = "finally"
    /\ UNCHANGED <<sections, section_quota_cache, tries, idx, has_changed_quota, rows,
                   printed, closes, acq_fails, consec_fails, reloads,
                   this_cycle, prev_cycle, cache_at_start, steps, writes>>

\* a refresh after which the table found in the previous cycle is reused
Refresh_KeepTable ==
    /\ pc = "refresh"
    /\ rows' = Empty
    /\ printed' = <<>>
    /\ prev_cycle' = this_cycle
    /\ this_cycle' = Empty
    /\ cache_at_start' = section_quota_cache
    /\ steps' = Append(steps, "refresh")
    /\ writes' = Empty
    /\ pc' = "wait"
    /\ UNCHANGED <<sections, section_quota_cache, tries, idx, has_changed_quota,
                   raised, closes, acq_fails, consec_fails, reloads>>

\* lines 99-100, 41-42: driver.refresh() returns, the separator is printed and
\* the next cycle begins; the refreshed page shows no section rows yet
Refresh ==
    /\ pc = "refresh"
    /\ rows' = Empty
    /\ printed' = <<>>
    /\ prev_cycle' = this_cycle
    /\ this_cycle' = Empty
    /\ cache_at_start' = section_quota_cache
    /\ steps' = Append(steps, "refresh")
    /\ writes' = Empty
    /\ pc' = "table"
    /\ UNCHANGED <<sections, section_quota_cache, tries, idx, has_changed_quota,
                   raised, closes, acq_fails, consec_fails, reloads>>

\* line 99: driver.refresh() raises; nothing catches it before line 101
RefreshFails ==
    /\ pc = "refresh"
    /\ \E exc \in {"WebDriverException", "KeyboardInterrupt"} : raised' = exc
    /\ pc' = "finally"
    /\ UNCHANGED <<sections, section_quota_cache, tries, idx, has_changed_quota, rows,
                   printed, closes, acq_fails, consec_fails, reloads,
                   this_cycle, prev_cycle, cache_at_start, steps, writes>>

----------------------------------------------------------------------------
Next ==
    \/ InitialGet \/ InitialGetFails
    \/ FindTable \/ FindTableFails \/ Reload \/ ReloadFails
    \/ RetrySleep \/ RetrySleepInterrupted
    \/ ClickCourse \/ ClickCourseFails \/ WaitInterrupted
    \/ ReadSection \/ SectionMissing \/ SectionFindFails \/ SectionReadFails
    \/ ReportUnchanged \/ Sleep \/ SleepInterrupted \/ Refresh \/ RefreshFails
    \/ FatalClose \/ Finally

Spec == Init /\ [][Next]_vars

TypeOK ==
    /\ tries \in 0..TriesCap
    /\ closes \in 0..2
    /\ DOMAIN section_quota_cache \subseteq {sections[j] : j \in 1..Len(sections)}

----------------------------------------------------------------------------
(* Vocabulary of the properties *)

TrackedKeys == {sections[j] : j \in 1..Len(sections)}

\* number of change notifications printed for section k in the current cycle
NotifyCount(k) ==
    Cardinality({j \in 1..Len(printed) :
                    printed[j].type = "quota" /\ printed[j].id = course_section(k)})

HasLine(type) == \E j \in 1..Len(printed) : printed[j].type = type

\* the script has left the try block of lines 40-100 for good
Terminating == pc \in {"fatal_close", "finally", "done"}

\* the current cycle is not the first one
LaterCycle == prev_cycle # Empty

\* the for loop of line 67 was left at the section at idx
InReadLoop == idx \in 1..Len(sections)

----------------------------------------------------------------------------
\* C1: on every exit path of the polling loop (the script has ended after
\* entering the try block), driver.close() has been invoked exactly once.
C1_ClosedExactlyOnce == pc = "done" => closes = 1

\* C2: in the first cycle, every section that has been read has exactly one
\* change notification, whatever text the page displays for it.
C2_FirstReadNotifiesOnce ==
    ~LaterCycle => \A k \in DOMAIN this_cycle : NotifyCount(k) = 1

\* C3: in every cycle after the first, a section that has been read has a
\* change notification (exactly one) if and only if the text read for it
\* differs from the text read for it in the preceding cycle.
C3_NotifyIffDiffers ==
    LaterCycle =>
        \A k \in DOMAIN this_cycle :
            NotifyCount(k) = IF this_cycle[k] # prev_cycle[k] THEN 1 ELSE 0

C3_Witness ==
    /\ pc = "sleep"
    /\ LaterCycle
    /\ \E k1, k2 \in DOMAIN this_cycle :
          /\ this_cycle[k1] # prev_cycle[k1] /\ NotifyCount(k1) = 1
          /\ this_cycle[k2] = prev_cycle[k2] /\ NotifyCount(k2) = 0

\* C4: once a cycle has read all sections and reported, the "unchanged" line
\* is printed if and only if every section's new text equals the entry the
\* cache held for it before the cycle, and never next to a change notification.
C4_UnchangedIffAllEqual ==
    pc = "sleep" =>
        /\ HasLine("unchanged") <=>
              \A k \in TrackedKeys :
                  k \in DOMAIN cache_at_start /\ this_cycle[k] = cache_at_start[k]
        /\ ~(HasLine("unchanged") /\ HasLine("quota"))

\* C5 (as stated): when the script terminates inside the read loop on a missing
\* or mismatching row, the cache equals the cache at the start of the cycle.
C5_AtomicPerCycle ==
    (Terminating /\ InReadLoop /\ (HasLine("not_found") \/ raised = "AssertionError"))
        => section_quota_cache = cache_at_start

\* C5 (amended): the cache is updated per section as it is read: it holds this
\* cycle's text for every section already read in the cycle and the entry (or
\* absence) of the start of the cycle for every other section, also after a
\* fatal termination inside the read loop.
C5_PerKeyUpdate ==
    \A k \in TrackedKeys :
        IF k \in DOMAIN this_cycle
        THEN k \in DOMAIN section_quota_cache /\ section_quota_cache[k] = this_cycle[k]
        ELSE /\ k \in DOMAIN section_quota_cache <=> k \in DOMAIN cache_at_start
             /\ k \in DOMAIN section_quota_cache =>
                   section_quota_cache[k] = cache_at_start[k]

C5_Witness ==
    /\ pc = "done"
    /\ idx = 2
    /\ HasLine("not_found")
    /\ course_section(sections[2]) \notin DOMAIN rows
    /\ sections[1] \in DOMAIN cache_at_start
    /\ sections[2] \in DOMAIN cache_at_start
    /\ section_quota_cache[sections[1]] # cache_at_start[sections[1]]
    /\ section_quota_cache[sections[2]] = cache_at_start[sections[2]]

\* C6: when the table lookup has succeeded after M failed lookups of this
\* acquisition, no reload happened if M < 10 and exactly one if M >= 10.
C6_RetryBound ==
    pc = "wait" =>
        /\ acq_fails < max_tries => reloads = 0
        /\ acq_fails >= max_tries => reloads = 1

\* C7: every reload is immediately preceded by 10 consecutive failed table
\* lookups with no successful lookup (and no reload) between them.
C7_ReloadAfterSustainedAbsence ==
    [][reloads' = reloads + 1 => consec_fails >= max_tries]_vars

\* C8: once a section without a row has been reported, nothing but the close
\* calls happens: no section is read, no notification printed, no sleep,
\* refresh or table lookup runs, and the cache stays as it is.
MissingReported ==
    /\ InReadLoop
    /\ course_section(sections[idx]) \notin DOMAIN rows
    /\ Len(printed) > 0
    /\ printed[Len(printed)].type = "not_found"

C8_MissingKeyTerminates ==
    [][MissingReported =>
          /\ MissingReported'
          /\ pc \in {"fatal_close", "finally", "done"}
          /\ pc' \in {"finally", "done"}
          /\ UNCHANGED <<section_quota_cache, this_cycle, prev_cycle, idx, tries,
                         printed, rows, acq_fails, reloads, has_changed_quota>>]_vars

C8_Witness ==
    /\ pc = "done"
    /\ MissingReported
    /\ idx = 2
    /\ sections[1] \in DOMAIN this_cycle

\* C9: a failure of the browser session inside the loop is never absorbed as a
\* retry of the table lookup: after it the script is on its way out.
C9_SessionFailureIsFatal ==
    (raised = "WebDriverException" /\ pc # "aborted") => Terminating

\* C10: an operator interrupt inside the loop is never absorbed as a retry of
\* the table lookup and never reported as a missing section: after it the
\* script runs the finally block and ends.
C10_InterruptReachesFinally ==
    (raised = "KeyboardInterrupt" /\ pc # "aborted") =>
        /\ pc \in {"finally", "done"}
        /\ ~HasLine("not_found")

----------------------------------------------------------------------------
\* C11: whenever the script has ended, the session that line 35 created has
\* been closed, also when the driver.get of line 36 raised.
C11_SessionAlwaysClosed == pc \in {"done", "aborted"} => closes >= 1

\* C12: when a cycle has completed and the script sleeps, the cache has exactly
\* one entry per tracked section and it is the text read for it in this cycle.
C12_CacheHoldsCycleReads ==
    pc = "sleep" =>
        /\ DOMAIN section_quota_cache = TrackedKeys
        /\ \A k \in TrackedKeys :
              /\ section_quota_cache[k] = this_cycle[k]
              /\ section_quota_cache[k] = rows[course_section(k)]

C12_Witness ==
    /\ pc = "sleep"
    /\ sections = <<"001", "002">>
    /\ prev_cycle = [k \in {"001", "002"} |-> IF k = "001" THEN "5" ELSE ""]
    /\ section_quota_cache = [k \in {"001", "002"} |-> IF k = "001" THEN "5" ELSE "3"]

\* C13: a step that starts a termination on a failed identifier check or a
\* missing row prints a report naming the identifier; a step that reloads the
\* page prints a report; a failed table lookup prints nothing.
LastLine == printed[Len(printed)]

C13_FailuresAreReported ==
    [][/\ (pc \notin {"fatal_close", "finally"} /\ pc' \in {"fatal_close", "finally"}
             /\ raised' \in {"AssertionError", "NoSuchElementException"})
          => /\ Len(printed') = Len(printed) + 1
             /\ \/ /\ pc = "wait"
                   /\ printed'[Len(printed')].type = "could_not_click"
                   /\ printed'[Len(printed')].id = course
                \/ /\ pc = "section"
                   /\ printed'[Len(printed')].type = "not_found"
                   /\ printed'[Len(printed')].id = course_section(sections[idx])
       /\ reloads' = reloads + 1
          => printed' = Append(printed, Line("could_not_load", "", ""))
       /\ acq_fails' = acq_fails + 1 => printed' = printed]_vars

\* C14 (as stated): no change notification is printed while the read loop has
\* not read its last section, so a cycle that ends on a missing section has
\* printed none.
C14_NotifyAfterAllRead == InReadLoop => ~HasLine("quota")

\* C14 (amended): change notifications are printed inside the read loop, each
\* as soon as its section has been read and differs from the cached text; only
\* the "unchanged" line waits until every section has been read.
Differs(k) ==
    IF k \in DOMAIN cache_at_start
    THEN this_cycle[k] # cache_at_start[k]
    ELSE this_cycle[k] # ""

C14_NotifyAsRead ==
    /\ InReadLoop => ~HasLine("unchanged")
    /\ \A k \in TrackedKeys :
          NotifyCount(k) = IF k \in DOMAIN this_cycle /\ Differs(k) THEN 1 ELSE 0

C14_Witness ==
    /\ pc = "done"
    /\ MissingReported
    /\ idx = 2
    /\ NotifyCount(sections[1]) = 1
    /\ LaterCycle

\* C15: once the course row's text has failed the check of line 59, the row
\* has not been clicked, no section has been read in this cycle, the cache is
\* the cache of the start of the cycle, and nothing but the close calls
\* follows: no table lookup, no reload, no read.
Mismatch ==
    /\ Len(printed) > 0
    /\ LastLine.type = "could_not_click"
    /\ LastLine.value = "AssertionError"

Clicked == \E j \in 1..Len(steps) : steps[j] = "click"

C15_MismatchIsFatal ==
    [][Mismatch =>
          /\ ~Clicked
          /\ this_cycle = Empty
          /\ writes = Empty
          /\ section_quota_cache = cache_at_start
          /\ pc \in {"fatal_close", "finally", "done"}
          /\ pc' \in {"finally", "done"}
          /\ Mismatch'
          /\ UNCHANGED <<section_quota_cache, this_cycle, writes, steps, idx, tries,
                         acq_fails, consec_fails, reloads, printed, rows>>]_vars

C15_Witness ==
    /\ pc = "done"
    /\ Mismatch
    /\ ~Clicked
    /\ LaterCycle
    /\ section_quota_cache = prev_cycle

----------------------------------------------------------------------------
\* C16: the first section read of a cycle is preceded, since the last read of
\* the cycle before, by exactly one sleep, one refresh, one successful table
\* lookup and one verified click of the course row, in this order (the first
\* cycle by the lookup and the click only); later reads of the cycle follow
\* the read before them directly.
ReadStep == writes' # writes /\ writes' # Empty

C16_StepsBetweenCycles ==
    [][ReadStep =>
          steps = IF writes # Empty THEN <<>>
                  ELSE IF LaterCycle THEN <<"sleep", "refresh", "table", "click">>
                  ELSE <<"table", "click">>]_vars

C16_Witness ==
    /\ pc = "report"
    /\ LaterCycle
    /\ DOMAIN this_cycle = TrackedKeys
    /\ Len(sections) = 2
    /\ steps = <<>>

\* C17: when a cycle has completed, the cache entry of every tracked section
\* has been assigned exactly once in the cycle, whatever list was supplied.
C17_OncePerKeyPerCycle ==
    pc = "sleep" => \A k \in TrackedKeys : writes[k] = 1

\* C18: the script leaves the loop only with an exception pending, and a
\* completed cycle goes on to the sleep, the refresh and the next table lookup
\* unless an exception ends it.
Exceptions ==
    {"NoSuchElementException", "WebDriverException", "KeyboardInterrupt",
     "AssertionError", "SystemExit"}

C18_NoNormalExit ==
    [][/\ pc' \in {"fatal_close", "finally", "done"} => raised' \in Exceptions
       /\ pc = "report" => pc' = "sleep"
       /\ (pc = "sleep" /\ raised' = "none") => pc' = "refresh"
       /\ (pc = "refresh" /\ raised' = "none") => pc' = "table"]_vars

C18_Witness ==
    /\ pc = "table"
    /\ LaterCycle
    /\ raised = "none"
    /\ steps = <<"sleep", "refresh">>
    /\ DOMAIN prev_cycle = TrackedKeys

\* C19: the retry counter never exceeds max_tries.
C19_TriesBounded == tries \in 0..max_tries

----------------------------------------------------------------------------
(* Liveness.  The script is a single thread whose calls all return or raise, *)
(* so it does not stand still while a step is possible.                      *)
FairSpec == Init /\ [][Next]_vars /\ WF_vars(Next)

\* every tracked section has been read in the current cycle
AllRead == pc = "report" /\ DOMAIN this_cycle = TrackedKeys

\* no step fails for a reason of the page (table absent, identifier text not
\* matching, section row missing) and no such failure has ended the script
PageHealthy ==
    /\ raised \in {"none", "KeyboardInterrupt", "WebDriverException"}
    /\ pc # "aborted"

\* no driver call raises and the operator does not interrupt
NoFault == raised = "none"

====
